---- MODULE Spec2Model ----
(***************************************************************************)
(* A model of the Potato Health Monitor: the Streamlit script              *)
(* 5_streamlit_app.py and the two helper modules it can import,            *)
(* aws_utils_stub.py (as checked in) and aws_utils.py (the live module the *)
(* script's docstring says to swap in).                                    *)
(*                                                                         *)
(* Strings are sequences of pieces.  Text that comes from the user (file   *)
(* names, chat input, location names) is a sequence of one-character       *)
(* strings; a literal of the program is one piece holding the literal; a   *)
(* uuid4() value is one piece holding the number of the call that made it. *)
(* Numbers with one decimal (weather readings) are kept in tenths,         *)
(* coordinates in hundredths.                                              *)
(***************************************************************************)
EXTENDS Integers, Sequences, FiniteSets, TLC

\* ---------------------------------------------------------------- bounds

\* Longest file name drawn by the specifications that enumerate names.
MaxNameLen == 3
\* The transcript holds at most twice this many turns in one behaviour.
MaxSends == 2
\* Most distinct storage keys returned in one behaviour.
MaxUploads == 2
\* Most uuid4() calls in one behaviour (the session id takes the first).
MaxUuids == 3
\* The user picks among this many of the registry's first names.
MaxLocations == 2
\* Most messages in one engine response.
MaxLexMsgs == 2
\* The number of letters a case variant of a location name has in upper case.
MaxUpper == 2

\* ------------------------------------------------------- Python's values

\* Python's None, and a value that is not None, for the optional fields.
None == [some |-> FALSE, val |-> <<>>]
Some(v) == [some |-> TRUE, val |-> v]

\* A weather reading: the string "N/A", or a number (in tenths).
NA == [kind |-> "N/A", val |-> 0]
Num(v) == [kind |-> "num", val |-> v]

\* ------------------------------------------------------- string helpers

\* str.lower() on one character, for the characters the model's texts use.
LowerChar(c) ==
    CASE c = "A" -> "a" [] c = "B" -> "b" [] c = "C" -> "c" [] c = "D" -> "d"
      [] c = "E" -> "e" [] c = "F" -> "f" [] c = "G" -> "g" [] c = "H" -> "h"
      [] c = "I" -> "i" [] c = "J" -> "j" [] c = "K" -> "k" [] c = "L" -> "l"
      [] c = "M" -> "m" [] c = "N" -> "n" [] c = "O" -> "o" [] c = "P" -> "p"
      [] c = "Q" -> "q" [] c = "R" -> "r" [] c = "S" -> "s" [] c = "T" -> "t"
      [] c = "U" -> "u" [] c = "V" -> "v" [] c = "W" -> "w" [] c = "X" -> "x"
      [] c = "Y" -> "y" [] c = "Z" -> "z" [] c = "Å" -> "å" [] c = "Ä" -> "ä"
      [] c = "Ö" -> "ö" [] OTHER -> c

\* str.lower()
Lower(s) == [i \in 1..Len(s) |-> LowerChar(s[i])]

\* s.startswith(p)
StartsWith(s, p) == Len(s) >= Len(p) /\ SubSeq(s, 1, Len(p)) = p

\* `sub in s`
Contains(sub, s) ==
    \E i \in 1..(Len(s) + 1) :
        i + Len(sub) - 1 <= Len(s) /\ SubSeq(s, i, i + Len(sub) - 1) = sub

\* s.replace(old, new) for a non-empty old: left to right, not overlapping.
RECURSIVE Replace(_, _, _)
Replace(s, old, new) ==
    IF Len(s) < Len(old) THEN s
    ELSE IF SubSeq(s, 1, Len(old)) = old
         THEN new \o Replace(SubSeq(s, Len(old) + 1, Len(s)), old, new)
         ELSE <<Head(s)>> \o Replace(Tail(s), old, new)

\* s.rfind("/") + 1: the place after the last "/", 0 when there is none.
LastSlash(s) ==
    IF \E i \in 1..Len(s) : s[i] = "/"
    THEN CHOOSE i \in 1..Len(s) :
             s[i] = "/" /\ \A j \in (i + 1)..Len(s) : s[j] # "/"
    ELSE 0

\* os.path.basename (posixpath): what follows the last "/".
BasenameDropsToken(p) ==
    LET b == SubSeq(p, LastSlash(p) + 1, Len(p))
    IN  IF Len(b) >= 2 /\ b[2] = "-" THEN SubSeq(b, 3, Len(b)) ELSE b
Basename(p) == SubSeq(p, LastSlash(p) + 1, Len(p))

\* sep.join(parts)
RECURSIVE Join(_, _)
Join(sep, parts) ==
    IF parts = <<>> THEN <<>>
    ELSE IF Len(parts) = 1 THEN Head(parts)
    ELSE Head(parts) \o sep \o Join(sep, Tail(parts))

\* str(uuid.uuid4()): the n-th call returns a value no other call returns.
Uuid4(n) == <<ToString(n)>>

\* All strings over an alphabet, up to a length.
RECURSIVE StringsUpTo(_, _)
StringsUpTo(alphabet, n) ==
    IF n = 0 THEN {<<>>}
    ELSE LET shorter == StringsUpTo(alphabet, n - 1)
         IN  shorter \cup {Append(s, c) : s \in shorter, c \in alphabet}

\* ------------------------------------------------- the location registry

\* aws_utils_stub.LOCATION_COORDS, in insertion order: <<name, <<lat, lon>>>>.
StubLocationCoords ==
    << <<<<"U","p","p","s","a","l","a">>, <<5986, 1764>> >>,
       <<<<"S","t","o","c","k","h","o","l","m">>, <<5933, 1806>> >>,
       <<<<"M","a","l","m","ö">>, <<5560, 1300>> >>,
       <<<<"G","ö","t","e","b","o","r","g">>, <<5771, 1197>> >>,
       <<<<"Ö","r","e","b","r","o">>, <<5927, 1521>> >>,
       <<<<"L","i","n","k","ö","p","i","n","g">>, <<5841, 1562>> >>,
       <<<<"V","a","s","t","e","r","a","s">>, <<5961, 1655>> >>,
       <<<<"L","u","n","d">>, <<5570, 1319>> >> >>

\* aws_utils.LOCATION_COORDS, in insertion order.
LiveLocationCoords ==
    << <<<<"u","p","p","s","a","l","a">>, <<5986, 1764>> >>,
       <<<<"s","t","o","c","k","h","o","l","m">>, <<5933, 1806>> >>,
       <<<<"m","a","l","m","ö">>, <<5560, 1300>> >>,
       <<<<"m","a","l","m","o">>, <<5560, 1300>> >>,
       <<<<"g","ö","t","e","b","o","r","g">>, <<5771, 1197>> >>,
       <<<<"g","o","t","e","b","o","r","g">>, <<5771, 1197>> >>,
       <<<<"ö","r","e","b","r","o">>, <<5927, 1521>> >>,
       <<<<"o","r","e","b","r","o">>, <<5927, 1521>> >>,
       <<<<"l","i","n","k","ö","p","i","n","g">>, <<5841, 1562>> >>,
       <<<<"l","i","n","k","o","p","i","n","g">>, <<5841, 1562>> >>,
       <<<<"v","ä","s","t","e","r","å","s">>, <<5961, 1655>> >>,
       <<<<"v","a","s","t","e","r","a","s">>, <<5961, 1655>> >>,
       <<<<"l","u","n","d">>, <<5570, 1319>> >> >>

\* The helper modules the script can import.
Modules == {"stub", "live"}

LOCATION_COORDS(m) == IF m = "stub" THEN StubLocationCoords ELSE LiveLocationCoords

\* The stub's default spelled as the live registry spells its names.
StubDefaultLocationLowercase == <<"s","t","o","c","k","h","o","l","m">>
StubDefaultLocation == <<"S","t","o","c","k","h","o","l","m">>
LiveDefaultLocation == <<"u","p","p","s","a","l","a">>
DEFAULT_LOCATION(m) == IF m = "stub" THEN StubDefaultLocation ELSE LiveDefaultLocation

\* dict.get(key): the coordinates registered under a name, None without one.
CoordsGet(m, name) ==
    LET t == LOCATION_COORDS(m)
    IN  IF \E i \in 1..Len(t) : t[i][1] = name
        THEN Some(t[CHOOSE i \in 1..Len(t) : t[i][1] = name][2])
        ELSE None

DEFAULT_COORDS == CoordsGet("live", LiveDefaultLocation).val

\* The keys of the module's registry.
RegistryKeys(m) == {LOCATION_COORDS(m)[i][1] : i \in 1..Len(LOCATION_COORDS(m))}

\* AVAILABLE_LOCATIONS = list(LOCATION_COORDS.keys())
AVAILABLE_LOCATIONS(m) == [i \in 1..Len(LOCATION_COORDS(m)) |-> LOCATION_COORDS(m)[i][1]]

\* get_coordinates looking the name up as it is spelled.
get_coordinatesCaseSensitive(location_name) ==
    IF ~location_name.some \/ location_name.val = <<>> THEN DEFAULT_COORDS
    ELSE LET coords == CoordsGet("live", location_name.val)
         IN  IF coords.some THEN coords.val ELSE DEFAULT_COORDS

\* get_coordinates without its first test: None.lower() raises, shown as <<>>.
get_coordinatesNoGuard(location_name) ==
    IF ~location_name.some THEN <<>>
    ELSE LET coords == CoordsGet("live", Lower(location_name.val))
         IN  IF coords.some THEN coords.val ELSE DEFAULT_COORDS

\* aws_utils.get_coordinates: location_name is None or a string.
get_coordinates(location_name) ==
    IF ~location_name.some \/ location_name.val = <<>> THEN DEFAULT_COORDS
    ELSE LET coords == CoordsGet("live", Lower(location_name.val))
         IN  IF coords.some THEN coords.val ELSE DEFAULT_COORDS

\* ------------------------------------------------------ the weather fetch

\* The snapshot both modules start from and the script initialises.
EmptyWeather == [temp |-> NA, humidity |-> NA, precip |-> NA, error |-> None]

\* What the SMHI request can do, as aws_utils sees it.  kind is
\*   "ok"            a 2xx answer whose JSON has a non-empty timeSeries; t, r
\*                   and pmean are the first forecast's parameters (NA: absent)
\*   "request_error" requests raised (network, timeout, non-2xx status)
\*   "json_error"    response.json() raised
\*   "no_timeseries" the JSON has no or an empty timeSeries
\*   "malformed"     the first forecast has no usable parameters list
\*   "requests_json_error"  the same, raised as requests' own JSONDecodeError,
\*                   which is a RequestException too (requests >= 2.27)
SmhiKinds ==
    {"ok", "request_error", "json_error", "requests_json_error", "no_timeseries",
     "malformed"}
SmhiOk(t, r, pmean) == [kind |-> "ok", t |-> t, r |-> r, pmean |-> pmean]
SmhiFail(kind) == [kind |-> kind, t |-> NA, r |-> NA, pmean |-> NA]
SmhiOutcomes ==
    {SmhiOk(Num(125), Num(800), Num(0)), SmhiOk(NA, Num(800), Num(2))}
        \cup {SmhiFail(k) : k \in SmhiKinds \ {"ok"}}

ErrorSnapshot(msg) == [EmptyWeather EXCEPT !.error = Some(<<msg>>)]

\* aws_utils.get_weather_for_location without its last except clause's message.
LiveWeatherNoCatchAll(location_name, smhi) ==
    CASE smhi.kind = "ok" ->
            [temp |-> smhi.t, humidity |-> smhi.r, precip |-> smhi.pmean,
             error |-> None]
      [] smhi.kind = "no_timeseries" -> ErrorSnapshot("SMHI API data format error.")
      [] smhi.kind \in {"request_error", "requests_json_error"} ->
            ErrorSnapshot("Could not reach weather service.")
      [] smhi.kind = "json_error" -> ErrorSnapshot("Error reading weather data.")
      [] OTHER -> EmptyWeather

\* aws_utils.get_weather_for_location
LiveWeather(location_name, smhi) ==
    CASE smhi.kind = "ok" ->
            [temp |-> smhi.t, humidity |-> smhi.r, precip |-> smhi.pmean,
             error |-> None]
      [] smhi.kind = "no_timeseries" -> ErrorSnapshot("SMHI API data format error.")
      [] smhi.kind \in {"request_error", "requests_json_error"} ->
            ErrorSnapshot("Could not reach weather service.")
      [] smhi.kind = "json_error" -> ErrorSnapshot("Error reading weather data.")
      [] OTHER -> ErrorSnapshot("Unexpected weather error.")

\* aws_utils_stub.get_weather_for_location
StubWeather(location_name) ==
    [temp |-> Num((10 + (Len(location_name) % 15)) * 10),
     humidity |-> Num((60 + (Len(location_name) % 30)) * 10),
     precip |-> Num(Len(location_name) % 5),
     error |-> None]

\* get_weather_for_location of the module in use.
get_weather_for_location(m, location_name, smhi) ==
    IF m = "stub" THEN StubWeather(location_name)
    ELSE LiveWeather(location_name, smhi)

\* ------------------------------------------------------------ the upload

UploadsPrefix == <<"u","p","l","o","a","d","s","/">>

\* What s3_client.upload_fileobj can do.
S3Outcomes == {"ok", "client_error", "exception"}

\* aws_utils.upload_to_s3(file_obj, bucket_name, object_name).  object_name and
\* filename (the file object's filename attribute) are None or a string; n is
\* the number of uuid4() calls made before.  Returns the key (None on failure)
\* and the number of uuid4() calls made after.
LiveUploadToS3(filename, object_name, n, s3) ==
    LET named == IF object_name.some THEN object_name ELSE filename
        fresh == ~object_name.some
        key == IF ~fresh THEN object_name.val
               ELSE IF ~named.some \/ named.val = <<>>
                    THEN UploadsPrefix \o Uuid4(n + 1)
                    ELSE UploadsPrefix \o Uuid4(n + 1) \o <<"-">>
                         \o Replace(Replace(Basename(named.val), <<".", ".">>, <<"_">>),
                                    <<"/">>, <<"_">>)
    IN  [key |-> IF s3 = "ok" THEN Some(key) ELSE None,
         uuids |-> IF fresh THEN n + 1 ELSE n]

UnknownFile == <<"u","n","k","n","o","w","n","_","f","i","l","e">>

\* aws_utils_stub.upload_to_s3: always succeeds.
StubUploadToS3(filename, object_name, n) ==
    LET original_filename == IF filename.some THEN filename.val ELSE UnknownFile
        name == IF object_name.some THEN object_name.val ELSE original_filename
    IN  [key |-> Some(UploadsPrefix \o Uuid4(n + 1) \o <<"-">> \o Basename(name)),
         uuids |-> n + 1]

\* upload_to_s3 of the module in use.
upload_to_s3(m, filename, object_name, n, s3) ==
    IF m = "stub" THEN StubUploadToS3(filename, object_name, n)
    ELSE LiveUploadToS3(filename, object_name, n, s3)

\* --------------------------------------------------- the engine (Lex) call

AccessDeniedReply == <<"Error: Access denied when calling Lex. Check UI credentials.">>
NotFoundReply == <<"Error: Lex bot or alias not found. Check configuration.">>
UnexpectedReply == <<"An unexpected error occurred.">>
NoResponseReply == <<"Sorry, I didn't get a response. Try again.">>
GenericReply(error_code) ==
    <<"An error occurred communicating with the bot (">>
        \o (IF error_code.some THEN error_code.val ELSE <<"None">>) \o <<").">>

\* One message of a Lex response: content is None when the key is absent.
LexMsg(contentType, content) == [contentType |-> contentType, content |-> content]
LexMsgs ==
    {LexMsg("PlainText", Some(<<"Reply from the bot.">>)),
     LexMsg("ImageResponseCard", None),
     LexMsg("PlainText", None)}

\* What lex_client.recognize_text can do: return a response (with or without
\* a messages list), raise a ClientError carrying an error code (or none), or
\* raise anything else.
LexResponse(has_messages, messages) ==
    [kind |-> "response", has_messages |-> has_messages, messages |-> messages,
     code |-> None]
LexClientError(code) ==
    [kind |-> "client_error", has_messages |-> FALSE, messages |-> <<>>, code |-> code]
LexException ==
    [kind |-> "exception", has_messages |-> FALSE, messages |-> <<>>, code |-> None]
\* No call of lex_client: the stub module has no client.
LexNotCalled ==
    [kind |-> "not_called", has_messages |-> FALSE, messages |-> <<>>, code |-> None]

ErrorCodes ==
    {Some(<<"AccessDeniedException">>), Some(<<"ResourceNotFoundException">>),
     Some(<<"ThrottlingException">>), None}

RECURSIVE SeqsUpTo(_, _)
SeqsUpTo(S, n) ==
    IF n = 0 THEN {<<>>}
    ELSE LET shorter == SeqsUpTo(S, n - 1)
         IN  shorter \cup {Append(q, x) : q \in shorter, x \in S}

LexOutcomes ==
    {LexResponse(TRUE, ms) : ms \in SeqsUpTo(LexMsgs, MaxLexMsgs)}
        \cup {LexResponse(FALSE, <<>>), LexException}
        \cup {LexClientError(c) : c \in ErrorCodes}

\* The contents of the PlainText messages, in order.
RECURSIVE PlainTexts(_)
PlainTexts(messages) ==
    IF messages = <<>> THEN <<>>
    ELSE IF Head(messages).contentType = "PlainText"
         THEN <<Head(messages).content.val>> \o PlainTexts(Tail(messages))
         ELSE PlainTexts(Tail(messages))

\* aws_utils.post_text_to_lex: the list of reply strings.
LivePostTextToLexNoNotFound(session_id, input_text, session_attributes, lex) ==
    CASE lex.kind = "response" ->
            IF lex.has_messages
               /\ \E i \in 1..Len(lex.messages) :
                      /\ lex.messages[i].contentType = "PlainText"
                      /\ ~lex.messages[i].content.some
            THEN <<UnexpectedReply>>
            ELSE LET messages == IF lex.has_messages THEN PlainTexts(lex.messages)
                                 ELSE <<>>
                 IN  IF messages = <<>> THEN <<NoResponseReply>> ELSE messages
      [] lex.kind = "client_error" ->
            IF lex.code = Some(<<"AccessDeniedException">>) THEN <<AccessDeniedReply>>
            ELSE <<GenericReply(lex.code)>>
      [] lex.kind = "exception" -> <<UnexpectedReply>>
LivePostTextToLex(session_id, input_text, session_attributes, lex) ==
    CASE lex.kind = "response" ->
            IF lex.has_messages
               /\ \E i \in 1..Len(lex.messages) :
                      /\ lex.messages[i].contentType = "PlainText"
                      /\ ~lex.messages[i].content.some
            THEN <<UnexpectedReply>>
            ELSE LET messages == IF lex.has_messages THEN PlainTexts(lex.messages)
                                 ELSE <<>>
                 IN  IF messages = <<>> THEN <<NoResponseReply>> ELSE messages
      [] lex.kind = "client_error" ->
            IF lex.code = Some(<<"AccessDeniedException">>) THEN <<AccessDeniedReply>>
            ELSE IF lex.code = Some(<<"ResourceNotFoundException">>)
                 THEN <<NotFoundReply>>
                 ELSE <<GenericReply(lex.code)>>
      [] lex.kind = "exception" -> <<UnexpectedReply>>

\* aws_utils_stub.post_text_to_lex: canned replies.  session_attributes is
\* None or a function from attribute names to values.
StubPostTextToLex(session_id, input_text, session_attributes) ==
    LET lowered == Lower(input_text)
        response_message ==
            <<"Okay, you asked about '">> \o input_text \o <<"'.">>
                \o (IF session_attributes.some
                       /\ DOMAIN session_attributes.val # {}
                       /\ "currentLocation" \in DOMAIN session_attributes.val
                    THEN <<" Location context is '">>
                             \o session_attributes.val["currentLocation"] \o <<"'.">>
                    ELSE <<>>)
    IN  IF Contains(<<"r","i","s","k">>, lowered) \/ Contains(<<"h","i","g","h">>, lowered)
        THEN << <<"Weather indicates high risk based on your query.">>,
                <<"Please provide the filename of the uploaded image for analysis.">> >>
        ELSE IF \/ Contains(<<"f","i","l","e","n","a","m","e">>, lowered)
                \/ Contains(<<".","j","p","g">>, lowered)
                \/ Contains(<<".","p","n","g">>, lowered)
             THEN << <<"Okay, analyzing image '">> \o input_text \o <<"' (simulated).">>,
                     <<"Diagnosis: Healthy (Confidence: 95.0%) - This is a stub result.">> >>
             ELSE <<response_message>>

\* post_text_to_lex of the module in use.
post_text_to_lex(m, session_id, input_text, session_attributes, lex) ==
    IF m = "stub" THEN StubPostTextToLex(session_id, input_text, session_attributes)
    ELSE LivePostTextToLex(session_id, input_text, session_attributes, lex)

\* ------------------------------------------------------------- the state

VARIABLES
    module,         \* the helper module the script imports: "stub" or "live"
    st,             \* st.session_state
    uploaded_file,  \* the file uploader's widget state: None or a file
    phase,          \* where the script is:
                    \*   "first"          no run yet, the page is empty
                    \*   "idle"           the last run reached the script's end
                    \*   "rerun"          the last run called st.rerun()
                    \*   "wait_location"  in st.spinner at 79-80, new location set
                    \*   "wait_lex"       in st.spinner at 105-112, user turn appended
                    \*   "wait_s3"        in st.spinner at 161-165, image opened
                    \*   "wait_initial"   in st.spinner at 194-195
                    \*   "at_error"       at st.error of line 180, file rejected
    prompt,         \* the script's `prompt` while it waits for the engine
    uuids,          \* the number of uuid4() calls made so far
    weather_for,    \* the location st.current_weather was fetched for
    loaded,         \* the initial weather fetch on load has been issued
    s3_keys,        \* the keys the successful uploads have returned
    generic_seen,   \* the replies the engine call gave for a failure that is
                    \* neither an authorization nor a not-found failure
    last,           \* the last step: what started it and what it called
    ret             \* the last direct call of a helper function

vars ==
    <<module, st, uploaded_file, phase, prompt, uuids, weather_for, loaded,
      s3_keys, generic_seen, last, ret>>

\* The session state after the script's initialisation block.
SessionInit(m) ==
    [lex_session_id |-> <<"st-session-">> \o Uuid4(1),
     messages |-> <<>>,
     current_location |-> DEFAULT_LOCATION(m),
     current_weather |-> EmptyWeather,
     uploaded_image |-> None,
     uploaded_image_key |-> None]

\* The record of a step: the action `op`; the user action (or first run)
\* `origin` that the step's chain of runs stems from, with the location it
\* selected and the text it submitted; the collaborator calls of the step;
\* whether it rejected a file; and the wait of the run that the origin
\* stopped, if it stopped one.
NoRun == [op |-> "none", origin |-> "none", selected |-> None, prompt |-> None,
          fetch |-> None, lex |-> None, s3 |-> None, rejected |-> FALSE,
          stopped |-> "none"]
NoCall == [fn |-> "none", args |-> <<>>, result |-> <<>>]

Init ==
    /\ module \in Modules
    /\ st = SessionInit(module)
    /\ uploaded_file = None
    /\ phase = "first"
    /\ prompt = None
    /\ uuids = 1
    /\ weather_for = None
    /\ loaded = FALSE
    /\ s3_keys = {}
    /\ generic_seen = {}
    /\ last = NoRun
    /\ ret = NoCall

\* The places where the script waits for a collaborator, inside st.spinner.
Waits == {"wait_location", "wait_lex", "wait_s3", "wait_initial"}

\* The places where a widget event ends the run with writes still to come:
\* the waits, and st.error in the upload handler's except block.
Stops == Waits \cup {"at_error"}

\* ------------------------------------------------------- one script run

\* What the script carries while it runs: the session state, the uuid4()
\* calls made, where it is ("run": running), its `prompt`, and the
\* collaborator calls of the step (fetch, lex, s3: None or the call).
StartRun(session, n, at, text, wfor, was_loaded, keys) ==
    [st |-> session, uuids |-> n, phase |-> at, prompt |-> text,
     weather_for |-> wfor, loaded |-> was_loaded, s3_keys |-> keys,
     fetch |-> None, lex |-> None, s3 |-> None, rejected |-> FALSE]

\* update_weather(location)
update_weather(m, r, location, cause, smhi) ==
    LET snapshot == get_weather_for_location(m, location, smhi)
    IN  [r EXCEPT !.st.current_weather = snapshot,
                  !.weather_for = Some(location),
                  !.fetch = Some([location |-> location, cause |-> cause,
                                  result |-> snapshot])]

\* The coordinates get_weather_for_location puts in the request's URL: the
\* live module resolves the name, the stub makes no request.
WeatherCoords(m, location_name) ==
    IF m = "live" THEN Some(get_coordinates(Some(location_name))) ELSE None

\* A location selector that starts the conversation afresh for the new place.
LocationSelectorResets(m, r, selected_location) ==
    IF r.phase = "run" /\ selected_location # r.st.current_location
    THEN [r EXCEPT !.st.current_location = selected_location,
                   !.st.messages = <<>>,
                   !.phase = "wait_location"]
    ELSE r

\* The location selector, lines 70-79: a selection other than the current
\* location is stored, and the script enters the spinner to fetch its weather.
LocationSelector(m, r, selected_location) ==
    IF r.phase = "run" /\ selected_location # r.st.current_location
    THEN [r EXCEPT !.st.current_location = selected_location,
                   !.phase = "wait_location"]
    ELSE r

\* Lines 80-81: the weather of the selected location is fetched and stored,
\* and the script asks for a rerun.
LocationSelectorFetch(m, r, smhi) ==
    [update_weather(m, r, r.st.current_location, "change", smhi)
        EXCEPT !.phase = "rerun"]

\* A chat input that tests its prompt against None only.
ChatInputNoEmptyTest(m, r, text) ==
    IF r.phase = "run" /\ text.some
    THEN [r EXCEPT !.st.messages =
                       Append(@, [role |-> "user", content |-> text.val]),
                   !.prompt = text,
                   !.phase = "wait_lex"]
    ELSE r

\* The chat input, lines 97-105: a submitted text is appended as the user's
\* turn and the script enters the spinner to call the engine.  The test of
\* line 97 is Python's truth test: None and the empty string both fail it.
ChatInput(m, r, text) ==
    IF r.phase = "run" /\ text.some /\ text.val # <<>>
    THEN [r EXCEPT !.st.messages =
                       Append(@, [role |-> "user", content |-> text.val]),
                   !.prompt = text,
                   !.phase = "wait_lex"]
    ELSE r

\* An engine call that makes up a session id of its own.
LexCallNewSession(m, r, lex) ==
    LET lex_attributes == [currentLocation |-> r.st.current_location]
        session_id == <<"st-session-">> \o Uuid4(r.uuids + 1)
    IN  [session_id |-> session_id,
         input_text |-> r.prompt.val,
         session_attributes |-> lex_attributes,
         outcome |-> lex,
         replies |-> post_text_to_lex(m, session_id, r.prompt.val,
                                      Some(lex_attributes), lex)]

\* The engine call of lines 106-112, as the step records it.
LexCall(m, r, lex) ==
    LET lex_attributes == [currentLocation |-> r.st.current_location]
    IN  [session_id |-> r.st.lex_session_id,
         input_text |-> r.prompt.val,
         session_attributes |-> lex_attributes,
         outcome |-> lex,
         replies |-> post_text_to_lex(m, r.st.lex_session_id, r.prompt.val,
                                      Some(lex_attributes), lex)]

\* A handler that makes the reply the whole transcript.
ChatInputReplyOverwrites(m, r, lex) ==
    LET call == LexCall(m, r, lex)
        full_response == Join(<<"\n\n">>, call.replies)
    IN  [r EXCEPT !.st.messages =
                      <<[role |-> "assistant", content |-> full_response]>>,
                  !.lex = Some(call),
                  !.prompt = None,
                  !.phase = "rerun"]

\* Lines 113-120: the engine's replies are joined and appended as the
\* assistant's turn, and the script asks for a rerun.
ChatInputReply(m, r, lex) ==
    LET call == LexCall(m, r, lex)
        full_response == Join(<<"\n\n">>, call.replies)
    IN  [r EXCEPT !.st.messages =
                      Append(@, [role |-> "assistant", content |-> full_response]),
                  !.lex = Some(call),
                  !.prompt = None,
                  !.phase = "rerun"]

\* The upload handler, lines 150-161 and 179-180: file is None or [name, ok],
\* ok saying whether Image.open accepts the file's bytes.  A file that it
\* rejects takes the script into the except block, to st.error; an image
\* takes it into the spinner to upload it.
UploadHandler(m, r, file) ==
    IF r.phase # "run" \/ ~file.some THEN r
    ELSE IF ~file.val.ok
         THEN [r EXCEPT !.rejected = TRUE, !.phase = "at_error"]
         ELSE [r EXCEPT !.phase = "wait_s3"]

\* Lines 181-182: after st.error the except block clears the session's upload.
UploadHandlerReject(m, r) ==
    [r EXCEPT !.st.uploaded_image = None,
              !.st.uploaded_image_key = None,
              !.rejected = TRUE,
              !.phase = "run"]

\* The uploader call of lines 162-165: it draws its uuid and stores the object.
UploadCall(m, r, file, s3) ==
    LET up == upload_to_s3(m, None, Some(file.val.name), r.uuids, s3)
    IN  [r EXCEPT !.uuids = up.uuids,
                  !.s3_keys = IF up.key.some THEN @ \cup {up.key.val} ELSE @,
                  !.s3 = Some([name |-> file.val.name,
                               key |-> up.key,
                               repeat |-> up.key.some /\ up.key.val \in r.s3_keys])]

\* Lines 167-177: the returned key's base name and the image are stored in
\* the session, or both are cleared when no key came back.
UploadHandlerStore(m, r, file, s3) ==
    LET done == UploadCall(m, r, file, s3)
        s3_object_name == done.s3.val.key
    IN  IF s3_object_name.some /\ s3_object_name.val # <<>>
        THEN [done EXCEPT !.st.uploaded_image = Some(file.val.name),
                          !.st.uploaded_image_key = Some(Basename(s3_object_name.val)),
                          !.phase = "run"]
        ELSE [done EXCEPT !.st.uploaded_image = None,
                          !.st.uploaded_image_key = None,
                          !.phase = "run"]

\* A script whose end fetches no weather.
InitialWeatherFetchNever(m, r) ==
    IF r.phase # "run" THEN r ELSE [r EXCEPT !.phase = "idle"]

\* The weather fetch at the end of the script, lines 192-194: with no
\* temperature the script enters the spinner to fetch; otherwise the run ends.
InitialWeatherFetch(m, r) ==
    IF r.phase # "run" THEN r
    ELSE IF r.st.current_weather.temp = NA
         THEN [r EXCEPT !.phase = "wait_initial"]
         ELSE [r EXCEPT !.phase = "idle"]

\* Lines 195-196: the current location's weather is fetched and stored, and
\* the script asks for a rerun.
InitialWeatherFetchStore(m, r, smhi) ==
    [update_weather(m, r, r.st.current_location,
                    IF r.loaded THEN "retry" ELSE "load", smhi)
        EXCEPT !.phase = "rerun", !.loaded = TRUE]

\* The script from its top to the first place where it waits, or to its end.
RunScript(m, r, selected_location, text, file) ==
    InitialWeatherFetch(m,
        UploadHandler(m, ChatInput(m, LocationSelector(m, r, selected_location), text),
                      file))

\* A widget event ends the run in flight at the next Streamlit call it makes.
\* A run that waits has either not made its call yet (it stops entering the
\* spinner) or its call is under way and completes before the run stops
\* leaving the spinner, ahead of the session writes that follow.  The weather
\* fetches write inside the spinner, so such a stop is the fetch's own step.
\* A run stopped at st.error has cleared nothing.
StopRun(m, r, file, called, lex, s3) ==
    IF r.phase = "wait_lex" /\ called
    THEN [r EXCEPT !.lex = Some(LexCall(m, r, lex)), !.prompt = None, !.phase = "run"]
    ELSE IF r.phase = "wait_s3" /\ called
         THEN [UploadCall(m, r, file, s3) EXCEPT !.phase = "run"]
         ELSE [r EXCEPT !.prompt = None, !.phase = "run"]

\* ------------------------------------------------------------ the actions

\* The files the main specification's user selects: an image and a file
\* that is no image.
MainFiles ==
    {[name |-> <<".",".","/","b",".","p","n","g">>, ok |-> TRUE],
     [name |-> <<"x",".","p","n","g">>, ok |-> FALSE]}

\* The texts the main specification's user submits.  st.chat_input submits
\* no empty text: it gives None or a text of at least one character.
MainTexts == {<<"R","i","s","k">>}

\* The collaborator outcomes of the main specification.
MainLexOutcomes ==
    {LexResponse(TRUE, <<LexMsg("PlainText", Some(<<"Reply from the bot.">>)),
                         LexMsg("PlainText", Some(<<"Reply from the bot.">>))>>),
     LexClientError(Some(<<"AccessDeniedException">>))}
MainSmhiOutcomes ==
    {SmhiOk(Num(125), Num(800), Num(0)), SmhiOk(NA, Num(800), Num(2)),
     SmhiFail("request_error")}

\* The engine failures that are neither an authorization failure nor a
\* not-found failure.
OtherFailure(lex) ==
    \/ lex.kind = "exception"
    \/ /\ lex.kind = "client_error"
       /\ lex.code \notin {Some(<<"AccessDeniedException">>),
                           Some(<<"ResourceNotFoundException">>)}

\* The outcomes a collaborator call can meet (the stub module calls none).
SmhiChoices == IF module = "live" THEN MainSmhiOutcomes ELSE {SmhiFail("request_error")}
LexChoices(lexes) == IF module = "live" THEN lexes ELSE {LexNotCalled}
S3Choices == IF module = "live" THEN S3Outcomes ELSE {"ok"}

\* The script as it stands in the state.
Running == StartRun(st, uuids, phase, prompt, weather_for, loaded, s3_keys)

\* The steps that begin a chain of runs: the first run and the user's actions.
Origins == {"FirstRun", "ChangeLocation", "SendMessage", "SelectFile", "RemoveFile"}

\* The step `op` leaves the script as r; file is the uploader's value after it.
Step(op, r, selected_location, text, file, stopped) ==
    /\ Len(r.st.messages) <= 2 * MaxSends
    /\ r.uuids <= MaxUuids
    /\ Cardinality(r.s3_keys) <= MaxUploads
    /\ st' = r.st
    /\ uuids' = r.uuids
    /\ weather_for' = r.weather_for
    /\ loaded' = r.loaded
    /\ phase' = r.phase
    /\ prompt' = r.prompt
    /\ uploaded_file' = file
    /\ s3_keys' = r.s3_keys
    /\ generic_seen' =
           IF module = "live" /\ r.lex.some /\ OtherFailure(r.lex.val.outcome)
           THEN generic_seen \cup {r.lex.val.replies} ELSE generic_seen
    /\ last' = [op |-> op,
                origin |-> IF op \in Origins THEN op ELSE last.origin,
                selected |-> IF op \in Origins THEN Some(selected_location)
                             ELSE last.selected,
                prompt |-> IF op \in Origins THEN text ELSE last.prompt,
                fetch |-> r.fetch, lex |-> r.lex, s3 |-> r.s3,
                rejected |-> r.rejected,
                stopped |-> IF op \in Origins THEN stopped ELSE last.stopped]
    /\ UNCHANGED <<module, ret>>

\* A script run started by `op` with the widgets' values, until it waits or
\* ends; a run in flight is stopped first.
Run(op, selected_location, text, file) ==
    \E called \in IF phase \in {"wait_lex", "wait_s3"} THEN BOOLEAN ELSE {FALSE} :
    \E lex \in IF phase = "wait_lex" /\ called
               THEN LexChoices(MainLexOutcomes) ELSE {LexNotCalled} :
    \E s3 \in IF phase = "wait_s3" /\ called THEN S3Choices ELSE {"ok"} :
        Step(op,
             RunScript(module, StopRun(module, Running, uploaded_file, called, lex, s3),
                       selected_location, text, file),
             selected_location, text, file,
             IF phase \in Stops THEN phase ELSE "none")

\* The first run of the script for a new session: until it has run there is
\* no page and no widget to act on.
FirstRun ==
    /\ phase = "first"
    /\ Run("FirstRun", st.current_location, None, uploaded_file)

\* The run st.rerun() asks for: the widgets keep their values.
Rerun ==
    /\ phase = "rerun"
    /\ Run("Rerun", st.current_location, None, uploaded_file)

\* The weather service answers at lines 79-80 or at lines 194-195.
FetchReturns ==
    /\ phase \in {"wait_location", "wait_initial"}
    /\ \E smhi \in SmhiChoices :
           Step("FetchReturns",
                IF phase = "wait_location"
                THEN LocationSelectorFetch(module, Running, smhi)
                ELSE InitialWeatherFetchStore(module, Running, smhi),
                st.current_location, None, uploaded_file, "none")

\* The engine answers at lines 106-112.
LexReturns(lexes) ==
    /\ phase = "wait_lex"
    /\ \E lex \in LexChoices(lexes) :
           Step("LexReturns", ChatInputReply(module, Running, lex),
                st.current_location, prompt, uploaded_file, "none")

\* The uploader answers at lines 162-165, and the script goes on to its end.
UploadReturns ==
    /\ phase = "wait_s3"
    /\ \E s3 \in S3Choices :
           Step("UploadReturns",
                InitialWeatherFetch(module,
                    UploadHandlerStore(module, Running, uploaded_file, s3)),
                st.current_location, None, uploaded_file, "none")

\* st.error of line 180 returns: the upload is cleared, and the script goes
\* on to its end.
ErrorShown ==
    /\ phase = "at_error"
    /\ Step("ErrorShown",
            InitialWeatherFetch(module, UploadHandlerReject(module, Running)),
            st.current_location, None, uploaded_file, "none")

\* When the user can act: the page is there, the script idle or running.
UserPhases == {"idle", "rerun"} \cup Stops

\* The locations the user picks among.
LocationChoices ==
    {AVAILABLE_LOCATIONS(module)[i] : i \in
        {j \in 1..Len(AVAILABLE_LOCATIONS(module)) : j <= MaxLocations}}

\* The user picks another location in the selector.
ChangeLocation ==
    /\ phase \in UserPhases
    /\ \E new_name \in LocationChoices :
           /\ new_name # st.current_location
           /\ Run("ChangeLocation", new_name, None, uploaded_file)

\* The user submits a text in the chat input.
SendMessage(texts) ==
    /\ phase \in UserPhases
    /\ \E text \in texts :
           Run("SendMessage", st.current_location, Some(text), uploaded_file)

\* The user puts a file in the uploader.
SelectFile(files) ==
    /\ phase \in UserPhases
    /\ \E f \in files : Run("SelectFile", st.current_location, None, Some(f))

\* The user takes the file out of the uploader.
RemoveFile ==
    /\ phase \in UserPhases
    /\ uploaded_file.some
    /\ Run("RemoveFile", st.current_location, None, None)

Next ==
    \/ FirstRun
    \/ Rerun
    \/ FetchReturns
    \/ LexReturns(MainLexOutcomes)
    \/ UploadReturns
    \/ ErrorShown
    \/ ChangeLocation
    \/ SendMessage(MainTexts)
    \/ SelectFile(MainFiles)
    \/ RemoveFile

Spec == Init /\ [][Next]_vars

\* ------------------------------------------- the chat, with all its inputs

\* The texts and the engine outcomes of the chat specification.
ChatTexts ==
    {<<"h","i">>, <<"H","i","g","h">>, <<"a",".","P","N","G">>}

ChatNext ==
    \/ FirstRun
    \/ Rerun
    \/ FetchReturns
    \/ LexReturns(LexOutcomes)
    \/ SendMessage(ChatTexts)

ChatSpec == Init /\ [][ChatNext]_vars

\* ------------------------------------------------ the uploader, on its own

\* The files of the uploader's specification.
UploadFiles ==
    MainFiles \cup {[name |-> <<"p","l","a","n","t",".","j","p","g">>, ok |-> TRUE]}

UploadNext ==
    \/ FirstRun
    \/ Rerun
    \/ FetchReturns
    \/ UploadReturns
    \/ ErrorShown
    \/ SelectFile(UploadFiles)
    \/ RemoveFile

UploadSpec == Init /\ [][UploadNext]_vars

NameAlphabet == {"a", ".", "/"}

\* ------------------------------------- the helper functions, called alone

\* upload_to_s3(file_obj, bucket, object_name) called directly: the file
\* object has a filename attribute or none, object_name is given or None.
CallUploadToS3 ==
    \E object_name \in {None} \cup {Some(n) : n \in StringsUpTo(NameAlphabet, MaxNameLen)},
       filename \in {None, Some(<<>>), Some(<<"a", "/", ".", ".">>)},
       s3 \in IF module = "live" THEN S3Outcomes ELSE {"ok"} :
        LET up == upload_to_s3(module, filename, object_name, uuids, s3)
        IN  /\ up.uuids <= MaxUuids
            /\ uuids' = up.uuids
            /\ ret' = [fn |-> "upload_to_s3",
                       args |-> [filename |-> filename, object_name |-> object_name,
                                 uuids |-> uuids],
                       result |-> up.key]
            /\ UNCHANGED <<module, st, uploaded_file, phase, prompt, weather_for,
                           loaded, s3_keys, generic_seen, last>>

FnNext == CallUploadToS3

FnSpec == Init /\ [][FnNext]_vars

\* ------------------------------------------ the chat handler, on its own

\* The values that fail the handler's test of line 97: None and the empty
\* string.  No script run carries the empty string, st.chat_input submits
\* none, so the test is evaluated here and not in a run; a text that passes
\* the test is SendMessage's.
PromptValues == {None, Some(<<>>)}

\* The handler of lines 97-105 evaluated on a prompt, in the session state
\* of a page whose script is idle: what it writes is written to the session,
\* and the script is idle again unless it has entered the spinner.
CallChatInput ==
    /\ phase = "idle"
    /\ \E text \in PromptValues :
           LET r == [Running EXCEPT !.phase = "run"]
               res == ChatInput(module, r, text)
           IN  /\ ret' = [fn |-> "chat_input",
                          args |-> [prompt |-> text, run |-> r],
                          result |-> res]
               /\ st' = res.st
               /\ prompt' = res.prompt
               /\ phase' = IF res.phase = "run" THEN "idle" ELSE res.phase
    /\ UNCHANGED <<module, uploaded_file, uuids, weather_for, loaded, s3_keys,
                   generic_seen, last>>

PromptNext ==
    \/ FirstRun
    \/ Rerun
    \/ FetchReturns
    \/ LexReturns(MainLexOutcomes)
    \/ ChangeLocation
    \/ SendMessage(MainTexts)
    \/ CallChatInput

PromptSpec == Init /\ [][PromptNext]_vars

\* ------------------------------------------------- the reruns, scheduled

\* The runs that draw no uuid, so that no bound of the model stops a rerun.
RerunNext ==
    \/ FirstRun
    \/ Rerun
    \/ FetchReturns
    \/ LexReturns(MainLexOutcomes)
    \/ ChangeLocation
    \/ SendMessage(MainTexts)

\* Streamlit runs the script for a new session, and again as soon as a run
\* has called st.rerun(); the weather request has a timeout and the engine
\* call returns.
RerunSpec ==
    /\ Init /\ [][RerunNext]_vars
    /\ WF_vars(FirstRun) /\ WF_vars(Rerun)
    /\ WF_vars(FetchReturns) /\ WF_vars(LexReturns(MainLexOutcomes))

\* ------------------------------------------- the weather fetch, on its own

\* The location names the weather fetch is called with directly: the names
\* of the module's registry and a name that is in neither registry.
WeatherLocations(m) ==
    {AVAILABLE_LOCATIONS(m)[i] : i \in 1..Len(AVAILABLE_LOCATIONS(m))}
        \cup {<<"O","s","l","o">>}

\* get_weather_for_location(location_name) called directly.
CallGetWeatherForLocation ==
    \E location_name \in WeatherLocations(module),
       smhi \in IF module = "live" THEN SmhiOutcomes ELSE {SmhiFail("request_error")} :
        /\ ret' = [fn |-> "get_weather_for_location",
                   args |-> [location_name |-> location_name, smhi |-> smhi],
                   result |-> get_weather_for_location(module, location_name, smhi)]
        /\ UNCHANGED <<module, st, uploaded_file, phase, prompt, uuids, weather_for,
                       loaded, s3_keys, generic_seen, last>>

WeatherNext ==
    \/ FirstRun
    \/ Rerun
    \/ FetchReturns
    \/ ChangeLocation
    \/ CallGetWeatherForLocation

WeatherSpec == Init /\ [][WeatherNext]_vars

\* --------------------------------------------- get_coordinates, on its own

\* str.upper() on one character of the registry's names.
UpperChar(c) ==
    CASE c = "a" -> "A" [] c = "b" -> "B" [] c = "c" -> "C" [] c = "d" -> "D"
      [] c = "e" -> "E" [] c = "g" -> "G" [] c = "h" -> "H" [] c = "i" -> "I"
      [] c = "k" -> "K" [] c = "l" -> "L" [] c = "m" -> "M" [] c = "n" -> "N"
      [] c = "o" -> "O" [] c = "p" -> "P" [] c = "r" -> "R" [] c = "s" -> "S"
      [] c = "t" -> "T" [] c = "u" -> "U" [] c = "v" -> "V" [] c = "å" -> "Å"
      [] c = "ä" -> "Ä" [] c = "ö" -> "Ö" [] OTHER -> c

\* The spellings of a name with at most MaxUpper letters in upper case, and
\* the one with all of them.
CaseVariants(name) ==
    {[i \in 1..Len(name) |-> IF i \in U THEN UpperChar(name[i]) ELSE name[i]] :
        U \in {V \in SUBSET (1..Len(name)) :
                  Cardinality(V) <= MaxUpper \/ V = 1..Len(name)}}

\* Inputs that are no registered name in any spelling of its case.
UnknownNames ==
    {<<"O","s","l","o">>, <<"l","u","n","d"," ">>, <<"v","ä","s","t","e","r","a","s">>,
     <<"m","a","l","m">>, <<" ">>}

\* What get_coordinates is called with: None, the empty string, the case
\* variants of the registered names, and unknown names.
CoordinateInputs ==
    {None, Some(<<>>)}
        \cup {Some(v) : v \in UNION {CaseVariants(k) : k \in RegistryKeys("live")}}
        \cup {Some(u) : u \in UnknownNames}

\* get_coordinates(location_name) called directly; only aws_utils has it.
CallGetCoordinates ==
    /\ module = "live"
    /\ \E location_name \in CoordinateInputs :
           ret' = [fn |-> "get_coordinates",
                   args |-> [location_name |-> location_name],
                   result |-> get_coordinates(location_name)]
    /\ UNCHANGED <<module, st, uploaded_file, phase, prompt, uuids, weather_for, loaded,
                   s3_keys, generic_seen, last>>

CoordsNext == CallGetCoordinates

CoordsSpec == Init /\ [][CoordsNext]_vars


\* ============================================================ the claims

\* C1: a chat submission with a non-empty text appends exactly one user turn
\* holding that text and then exactly one assistant turn with nothing in
\* between, and the assistant turn's text is non-empty, whatever the engine
\* did: every user turn of the transcript is the last one while the script
\* waits for the engine's answer to it, or has a non-empty assistant turn
\* right after it.
C1_SendMessageAppendsUserThenAssistant ==
    \A i \in 1..Len(st.messages) :
        st.messages[i].role = "user" =>
            IF i = Len(st.messages)
            THEN phase = "wait_lex" /\ prompt = Some(st.messages[i].content)
            ELSE /\ st.messages[i + 1].role = "assistant"
                 /\ st.messages[i + 1].content # <<>>

\* C2: once a ChangeLocation has completed, the session's location is the name
\* chosen and its weather is the snapshot returned by the fetch issued for
\* that same location; and no engine call is made while the weather held was
\* fetched for a location other than the current one.
C2_LastChangeLocationWins ==
    /\ (last.op = "FetchReturns" /\ last.origin = "ChangeLocation") =>
          /\ st.current_location = last.selected.val
          /\ last.fetch.val.location = last.selected.val
          /\ st.current_weather = last.fetch.val.result
    /\ (last.lex.some /\ weather_for.some) =>
          weather_for = Some(last.lex.val.session_attributes.currentLocation)

\* C3: a weather fetch is issued only by session initialization or by a
\* ChangeLocation, one fetch each: a fetch that returned an error or no
\* temperature is not followed by another fetch for the same cause.
C3_FetchOnlyOnInitOrChange ==
    last.fetch.some => last.fetch.val.cause \in {"load", "change"}

\* The pieces that are uuid4() values made so far.
IsToken(piece) == \E k \in 1..uuids : <<piece>> = Uuid4(k)

\* A string with no path separator in it.
NoSlash(x) == \A i \in 1..Len(x) : x[i] # "/"

\* The part of a path after its last separator, said without os.path: the
\* separator-free suffix that starts the path or follows a separator.
IsFinalComponent(x, path) ==
    /\ NoSlash(x)
    /\ Len(x) <= Len(path)
    /\ SubSeq(path, Len(path) - Len(x) + 1, Len(path)) = x
    /\ Len(x) < Len(path) => path[Len(path) - Len(x)] = "/"

\* A name with its directories dropped, ".." made "_" and "/" made "_".
SanitizedName(name) ==
    LET x == CHOOSE y \in {SubSeq(name, k, Len(name)) : k \in 1..(Len(name) + 1)} :
                 IsFinalComponent(y, name)
    IN  Replace(Replace(x, <<".", ".">>, <<"_">>), <<"/">>, <<"_">>)

\* The last step made an uploader call that returned a key.
UploadSucceeded ==
    last.s3.some /\ last.s3.val.key.some /\ last.s3.val.key.val # <<>>

\* The last step is the upload handler taking the uploader's key.
UploadStored == last.op = "UploadReturns" /\ UploadSucceeded

\* C4 as claimed: after a successful upload of a file named N the name stored
\* for the chat holds no random token and is the sanitized form of N.
C4_DisplayNameIsSanitizedName ==
    UploadStored =>
        /\ st.uploaded_image_key = Some(SanitizedName(last.s3.val.name))
        /\ \A i \in 1..Len(st.uploaded_image_key.val) :
               ~IsToken(st.uploaded_image_key.val[i])

\* C4, amended: when the upload handler stores a successful upload, the name
\* stored for the chat is the final path component of the returned storage
\* key; with the stub's keys that is the random token, "-" and the final
\* component of the file's name.
C4_DisplayNameIsKeyBasename ==
    UploadStored =>
        /\ st.uploaded_image_key.some
        /\ IsFinalComponent(st.uploaded_image_key.val, last.s3.val.key.val)
        /\ module = "stub" =>
              /\ Len(st.uploaded_image_key.val) >= 2
              /\ <<st.uploaded_image_key.val[1]>> = Uuid4(uuids)
              /\ st.uploaded_image_key.val[2] = "-"
              /\ IsFinalComponent(SubSeq(st.uploaded_image_key.val, 3,
                                         Len(st.uploaded_image_key.val)),
                                  last.s3.val.name)

\* The stub uploaded a file whose name has a directory part.
C4_Witness ==
    /\ module = "stub"
    /\ UploadStored
    /\ last.s3.val.name = <<".",".","/","b",".","p","n","g">>
    /\ st.uploaded_image_key.some

\* C5: any two successful uploads return distinct storage keys, also when
\* both are given the same name.
C5_UploadKeysDistinct ==
    (last.s3.some /\ last.s3.val.key.some) => ~last.s3.val.repeat

\* C6: a successful upload returns uploads/<token>-<sanitized name>, the
\* sanitized name holding no path separator and no "..", and
\* uploads/<token> when no name is given.
C6_KeyFormat ==
    (ret.fn = "upload_to_s3" /\ ret.result.some) =>
        LET key == ret.result.val
            token == Uuid4(ret.args.uuids + 1)
            given == \/ ret.args.object_name.some
                     \/ ret.args.filename.some /\ ret.args.filename.val # <<>>
            head == UploadsPrefix \o token
        IN  IF given
            THEN /\ StartsWith(key, head \o <<"-">>)
                 /\ LET name == SubSeq(key, Len(head) + 2, Len(key))
                    IN  NoSlash(name) /\ ~Contains(<<".", ".">>, name)
            ELSE key = head

\* C7: the chat handler rejects an empty text: given the empty string as its
\* prompt it leaves the transcript as it was, does not go on to the engine
\* call, and changes no other session field and nothing else the run
\* carries.
C7_EmptyMessageRejected ==
    (ret.fn = "chat_input" /\ ret.args.prompt = Some(<<>>)) =>
        /\ ret.result.st.messages = ret.args.run.st.messages
        /\ ret.result.phase # "wait_lex"
        /\ ~ret.result.lex.some
        /\ ret.result.st = ret.args.run.st
        /\ ret.result = ret.args.run

\* The handler has been given the empty string in a session that has a
\* transcript, its weather and a location other than the default.
C7_Witness ==
    /\ ret.fn = "chat_input"
    /\ ret.args.prompt = Some(<<>>)
    /\ Len(ret.args.run.st.messages) >= 2
    /\ ret.args.run.st.current_weather.temp # NA
    /\ ret.args.run.st.current_location # DEFAULT_LOCATION(module)

\* C8: the transcript is append-only: in every step the previous transcript
\* is a prefix of the new one, a step appends at most one turn, and the
\* assistant turn of a chat submission is appended right after that
\* submission's user turn.
C8_TranscriptAppendOnly ==
    [][LET n == Len(st.messages)
           m == Len(st'.messages)
       IN  /\ m >= n
           /\ SubSeq(st'.messages, 1, n) = st.messages
           /\ m > n =>
                 /\ m = n + 1
                 /\ \/ /\ last'.op = "SendMessage"
                       /\ st'.messages[m] =
                              [role |-> "user", content |-> last'.prompt.val]
                    \/ /\ last'.op = "LexReturns"
                       /\ st'.messages[m].role = "assistant"
                       /\ n >= 1
                       /\ st.messages[n] =
                              [role |-> "user",
                               content |-> last'.lex.val.input_text]
      ]_vars

\* The engine has answered the second of two chat submissions.
C8_Witness ==
    /\ Len(st.messages) = 4
    /\ last.op = "LexReturns"
    /\ st.messages[3].role = "user"
    /\ st.messages[4].role = "assistant"

\* C9: the session holds at most one upload record: a successful upload
\* replaces it with the new upload's image and name, and an upload whose
\* uploader call fails clears it instead of keeping the previous record.
\* Stated for the steps in which the user selects or removes no file.
C9_LastUploadOverwrittenOrCleared ==
    (last.s3.some /\ last.op \notin {"SelectFile", "RemoveFile"}) =>
        IF last.s3.val.key.some /\ last.s3.val.key.val # <<>>
        THEN /\ st.uploaded_image = Some(last.s3.val.name)
             /\ st.uploaded_image_key.some
             /\ IsFinalComponent(st.uploaded_image_key.val, last.s3.val.key.val)
        ELSE /\ st.uploaded_image = None
             /\ st.uploaded_image_key = None

\* The last turn of the transcript is the assistant's, with this text.
LastTurnIs(text) ==
    /\ st.messages # <<>>
    /\ st.messages[Len(st.messages)] = [role |-> "assistant", content |-> text]

\* C10 as claimed: the engine call returns at least one reply; an
\* authorization failure gives the fixed access-denied reply, an unknown bot
\* or alias the fixed not-found reply, and every other failure one fixed
\* generic reply; the chat handler appends that text as the assistant turn.
C10_OneGenericReply ==
    /\ Cardinality(generic_seen) <= 1
    /\ last.lex.some =>
          /\ Len(last.lex.val.replies) >= 1
          /\ (/\ last.op = "LexReturns"
              /\ last.lex.val.outcome.kind \in {"client_error", "exception"}) =>
                LastTurnIs(last.lex.val.replies[1])

\* C10, amended: the engine call returns at least one reply, each non-empty;
\* an authorization failure gives the fixed access-denied reply, an unknown bot
\* or alias the fixed not-found reply, any other service error a generic reply
\* that names its error code, and any other exception the fixed
\* unexpected-error reply, none of them equal to the first two; the chat
\* handler, when the call returns to it, appends that text as the assistant
\* turn.
C10_FailureReplyPerCategory ==
    (last.lex.some /\ module = "live") =>
        LET out == last.lex.val.outcome
            replies == last.lex.val.replies
            denied == <<"Error: Access denied when calling Lex. Check UI credentials.">>
            notfound == <<"Error: Lex bot or alias not found. Check configuration.">>
        IN  /\ Len(replies) >= 1
            /\ \A i \in 1..Len(replies) : replies[i] # <<>>
            /\ out.kind = "client_error" =>
                  replies =
                      IF out.code = Some(<<"AccessDeniedException">>) THEN <<denied>>
                      ELSE IF out.code = Some(<<"ResourceNotFoundException">>)
                           THEN <<notfound>>
                           ELSE << <<"An error occurred communicating with the bot (">>
                                     \o (IF out.code.some THEN out.code.val
                                         ELSE <<"None">>)
                                     \o <<").">> >>
            /\ out.kind = "exception" => replies = << <<"An unexpected error occurred.">> >>
            /\ denied # notfound
            /\ {<<denied>>, <<notfound>>} \cap generic_seen = {}
            /\ (last.op = "LexReturns" /\ out.kind \in {"client_error", "exception"}) =>
                  LastTurnIs(replies[1])

\* Two failures of the other kind were answered with two different replies,
\* the second appended to the transcript.
C10_Witness ==
    /\ Cardinality(generic_seen) = 2
    /\ last.op = "LexReturns"
    /\ last.lex.val.outcome.kind = "exception"
    /\ LastTurnIs(<<"An unexpected error occurred.">>)

\* A reading: unavailable or a number.
IsReading(x) == x = NA \/ (x.kind = "num" /\ x.val \in Int)

\* A weather snapshot: the three readings and an error, None or a message.
IsSnapshot(w) ==
    /\ DOMAIN w = {"temp", "humidity", "precip", "error"}
    /\ IsReading(w.temp) /\ IsReading(w.humidity) /\ IsReading(w.precip)
    /\ w.error = None \/ (w.error.some /\ Len(w.error.val) > 0)

\* C11: the weather fetch returns a snapshot for every location and every
\* outcome of the request; when the request fails (it raises, its body is not
\* JSON, or the payload has no forecast or no usable parameter list) the
\* snapshot carries an error and its three readings are unavailable, and no
\* snapshot with an error carries a reading; so the session's weather is a
\* snapshot in every state, after a fetch the one the fetch returned.
C11_WeatherFetchTotal ==
    /\ ret.fn = "get_weather_for_location" =>
          /\ IsSnapshot(ret.result)
          /\ (module = "live" /\ ret.args.smhi.kind # "ok") => ret.result.error.some
          /\ ret.result.error.some =>
                /\ ret.result.temp = NA
                /\ ret.result.humidity = NA
                /\ ret.result.precip = NA
    /\ IsSnapshot(st.current_weather)
    /\ last.op = "FetchReturns" =>
          /\ last.fetch.some
          /\ IsSnapshot(last.fetch.val.result)
          /\ st.current_weather = last.fetch.val.result

\* The fetch was called for a payload without a usable parameter list, after
\* a ChangeLocation whose fetch failed.
C11_Witness ==
    /\ ret.fn = "get_weather_for_location"
    /\ ret.args.smhi.kind = "malformed"
    /\ ret.result.error.some
    /\ last.op = "FetchReturns"
    /\ last.origin = "ChangeLocation"
    /\ last.fetch.val.cause = "change"
    /\ st.current_weather.error.some

\* C12: in every state the session's location is a key of the registry of the
\* module in use: the default it starts with is a key, and a ChangeLocation
\* sets the name selected, which the selector takes from the registry's keys.
C12_LocationIsRegistryKey ==
    /\ st.current_location \in RegistryKeys(module)
    /\ DEFAULT_LOCATION(module) \in RegistryKeys(module)
    /\ phase = "first" => st.current_location = DEFAULT_LOCATION(module)
    /\ last.op = "ChangeLocation" =>
          /\ last.selected.val \in RegistryKeys(module)
          /\ st.current_location = last.selected.val

\* A ChangeLocation has moved the session away from the default location.
C12_Witness ==
    /\ last.op = "ChangeLocation"
    /\ st.current_location # DEFAULT_LOCATION(module)
    /\ st.current_location = AVAILABLE_LOCATIONS(module)[2]

\* C13: an upload of a file that is not a readable image is rejected before
\* any uploader call and changes no session state: the upload record, the
\* transcript, the location and the weather keep their values, in the step
\* that rejects the file and in the one that reports it.  Stated for a
\* selection that stops no run.
C13_InvalidUploadMutatesNothing ==
    [][(last'.rejected /\ last'.origin = "SelectFile" /\ last'.stopped = "none") =>
          /\ ~last'.s3.some
          /\ st'.uploaded_image = st.uploaded_image
          /\ st'.uploaded_image_key = st.uploaded_image_key
          /\ st'.messages = st.messages
          /\ st'.current_location = st.current_location
          /\ st'.current_weather = st.current_weather
      ]_vars

\* C14 as stated: a new session's location is "uppsala", registered at
\* (59.86, 17.64), and the initial weather fetch is made for those coordinates.
C14_DefaultIsUppsala ==
    /\ phase = "first" => st.current_location = <<"u","p","p","s","a","l","a">>
    /\ (last.origin = "FirstRun" /\ last.fetch.some) =>
          /\ st.current_location = <<"u","p","p","s","a","l","a">>
          /\ WeatherCoords(module, last.fetch.val.location) = Some(<<5986, 1764>>)

\* C14: a new session's location is the default of the module in use, a
\* registered name: "uppsala" at (59.86, 17.64) in aws_utils, "Stockholm" at
\* (59.33, 18.06) in aws_utils_stub; the first run goes on to fetch the
\* weather for that name, and the fetch it makes is the session's first,
\* aws_utils requesting it for the name's coordinates and aws_utils_stub
\* computing it from the name without coordinates.
C14_DefaultIsModuleDefault ==
    /\ DEFAULT_LOCATION("live") = <<"u","p","p","s","a","l","a">>
    /\ CoordsGet("live", DEFAULT_LOCATION("live")) = Some(<<5986, 1764>>)
    /\ DEFAULT_LOCATION("stub") = <<"S","t","o","c","k","h","o","l","m">>
    /\ CoordsGet("stub", DEFAULT_LOCATION("stub")) = Some(<<5933, 1806>>)
    /\ phase = "first" => st.current_location = DEFAULT_LOCATION(module)
    /\ last.op = "FirstRun" =>
          /\ st.current_location = DEFAULT_LOCATION(module)
          /\ phase = "wait_initial"
          /\ ~last.fetch.some
    /\ (last.origin = "FirstRun" /\ last.fetch.some) =>
          /\ last.op = "FetchReturns"
          /\ st.current_location = DEFAULT_LOCATION(module)
          /\ last.fetch.val.location = DEFAULT_LOCATION(module)
          /\ st.current_weather = last.fetch.val.result
          /\ WeatherCoords(module, last.fetch.val.location) =
                 IF module = "live"
                 THEN CoordsGet("live", DEFAULT_LOCATION("live")) ELSE None

\* The first run of a session that imports the stub has fetched the weather.
C14_Witness ==
    /\ module = "stub"
    /\ last.op = "FetchReturns"
    /\ last.origin = "FirstRun"
    /\ last.fetch.val.cause = "load"
    /\ st.current_weather.temp # NA

\* str.lower() of a spelling, with its accented letters replaced.
Deaccent(name) ==
    [i \in 1..Len(name) |->
        CASE name[i] \in {"å", "ä"} -> "a" [] name[i] = "ö" -> "o" [] OTHER -> name[i]]

\* The coordinates the registry lists under a name of its own.
Registered(name) ==
    LiveLocationCoords[CHOOSE i \in 1..Len(LiveLocationCoords) :
                          LiveLocationCoords[i][1] = name][2]

\* C15: get_coordinates called with any upper/lower case variation of a
\* registered name returns the coordinates registered under that name, and
\* these are also the coordinates of the de-accented spelling of the place.
C15_CaseInsensitiveLookup ==
    (/\ ret.fn = "get_coordinates"
     /\ ret.args.location_name.some
     /\ Lower(ret.args.location_name.val) \in RegistryKeys("live")) =>
        LET name == Lower(ret.args.location_name.val)
        IN  /\ ret.result = Registered(name)
            /\ ret.result = get_coordinates(Some(name))
            /\ Deaccent(name) \in RegistryKeys("live")
            /\ ret.result = get_coordinates(Some(Deaccent(name)))

\* get_coordinates has resolved "VÄSTERÅS".
C15_Witness ==
    /\ ret.fn = "get_coordinates"
    /\ ret.args.location_name = Some(<<"V","Ä","S","T","E","R","Å","S">>)
    /\ ret.result = <<5961, 1655>>

\* C16: get_coordinates called with None, with the empty string or with a
\* name that is not registered returns the default location's coordinates;
\* it returns coordinates for every input.
C16_UnknownGetsDefault ==
    ret.fn = "get_coordinates" =>
        /\ Len(ret.result) = 2
        /\ (\/ ~ret.args.location_name.some
            \/ ret.args.location_name.val = <<>>
            \/ Lower(ret.args.location_name.val) \notin RegistryKeys("live")) =>
               /\ ret.result = Registered(LiveDefaultLocation)
               /\ ret.result = <<5986, 1764>>

\* get_coordinates has been called with a name spelled half with accents.
C16_Witness ==
    /\ ret.fn = "get_coordinates"
    /\ ret.args.location_name = Some(<<"v","ä","s","t","e","r","a","s">>)
    /\ ret.result = DEFAULT_COORDS

\* C17: the session id is the one generated at session initialization in
\* every state, no step changes it, and every engine call carries it together
\* with a context whose currentLocation is the session's location when the
\* call is made.
C17_SessionIdStable ==
    [][/\ st.lex_session_id = <<"st-session-">> \o Uuid4(1)
       /\ st'.lex_session_id = st.lex_session_id
       /\ last'.lex.some =>
             /\ last'.lex.val.session_id = st.lex_session_id
             /\ DOMAIN last'.lex.val.session_attributes = {"currentLocation"}
             /\ last'.lex.val.session_attributes.currentLocation = st.current_location
      ]_vars

\* The engine answered a text sent after the location had been changed and
\* after an upload had drawn another uuid.
C17_Witness ==
    /\ last.op = "LexReturns"
    /\ last.lex.some
    /\ uuids > 1
    /\ st.current_location # DEFAULT_LOCATION(module)
    /\ last.lex.val.session_attributes.currentLocation = st.current_location

\* C18: a ChangeLocation or an upload, whether the upload succeeds, fails
\* or is rejected, and every run that follows from it, leaves the transcript
\* as it was; a chat submission and every run that follows from it leaves
\* the location as it was; and the run of a chat submission, up to the
\* st.rerun() that follows the engine's reply, leaves the weather as it was.
\* This holds whether or not the action stops a run in flight.
C18_FrameEffects ==
    [][/\ last'.origin \in {"ChangeLocation", "SelectFile"} =>
              st'.messages = st.messages
       /\ last'.origin = "SendMessage" =>
              st'.current_location = st.current_location
       /\ last'.op \in {"SendMessage", "LexReturns"} =>
              /\ st'.current_location = st.current_location
              /\ st'.current_weather = st.current_weather
              /\ ~last'.fetch.some
      ]_vars

\* An upload has been answered in a session that has a transcript, a
\* location other than the default and its weather: a chat submission, a
\* ChangeLocation and an upload have all acted.
C18_Witness ==
    /\ last.op = "UploadReturns"
    /\ last.s3.some
    /\ Len(st.messages) >= 2
    /\ st.current_location # DEFAULT_LOCATION(module)
    /\ st.current_weather.temp # NA

\* C19: once a file has been uploaded, a later ChangeLocation or chat
\* submission of a text, and the script rerun it asks for while the file is
\* still in the uploader, makes no uploader call and leaves the upload
\* record, with the name given to the user, as it was.  Stated for an action
\* that stops no upload under way, with an image in the uploader.
C19_UploadOncePerAction ==
    [][(/\ \/ last'.origin = "ChangeLocation"
           \/ last'.origin = "SendMessage" /\ last'.prompt.val # <<>>
        /\ last'.stopped # "wait_s3"
        /\ ~last'.rejected
        /\ st.uploaded_image_key.some) =>
          /\ ~last'.s3.some
          /\ st'.uploaded_image = st.uploaded_image
          /\ st'.uploaded_image_key = st.uploaded_image_key
      ]_vars

\* C20: when the user stops acting, the chain of script reruns reaches a run
\* that asks for no further rerun: the session is idle again and again
\* unless the user keeps acting, whatever the collaborators answer.
C20_RerunsReachIdle ==
    []<>(phase = "idle" \/ last.op \in Origins \ {"FirstRun"})

====
